---- MODULE Spec2Model ----
(***************************************************************************)
(* Real-time dispatch engine (RealTimeServer, src/unnamed/part_000):       *)
(* the session registry `clients`, the WebSocket message listener with its *)
(* auth branch, the heartbeat supervisor, the close handler and the ride   *)
(* lifecycle handlers.  Every `await` on the store is an interleaving      *)
(* point: a handler in flight is a task whose pc names the store call it   *)
(* is waiting for; a task step performs that call atomically and runs the  *)
(* continuation up to the next store call.                                 *)
(*                                                                         *)
(* The store (./storage) is not part of the sources; its calls are         *)
(* modelled from the gateway contract: rows addressed by id, updateX       *)
(* overwrites exactly the fields passed, an update of a missing row does   *)
(* nothing, createRideRequest assigns the next serial id.                  *)
(***************************************************************************)
EXTENDS Integers, Sequences, FiniteSets, TLC

\* ---------------------------------------------------------------- bounds
NConn    == 2      \* WebSocket connections that may be opened
NRides   == 1      \* ride rows the store may create
MaxTasks == 2      \* message handlers simultaneously suspended on the store
MaxAuthTasks == 1  \* auth handlers among them
MaxTicks == 3      \* heartbeat intervals that elapse

\* ------------------------------------------------------ program constants
HEARTBEAT_INTERVAL == 30000
HEARTBEAT_TIMEOUT  == 60000
AUTH_TIMEOUT       == 30000
Null               == -1     \* null / undefined
NoUser             == 0      \* userId of the unauthenticated placeholder

Conns        == 1..NConn
RideIds      == 1..NRides
DriverIds    == {1, 2}       \* ids storage.getUser resolves
PassengerIds == {3}          \* ids storage.getPassenger resolves
UnknownId    == 9            \* an id neither table holds (a bound: any id above the stored ones)
UserTypes    == {"driver", "passenger", "admin"}
Statuses     == {"available", "busy", "offline"}

VARIABLES
  connState,        \* ws.readyState per connection: idle (not yet opened), open, closing, closed
  clients,          \* this.clients: sequence of ConnectedClient
  authTimeout,      \* per connection: deadline of the armed auth timer, or Null
  now,              \* Date.now()
  rides,            \* store: ride rows by id (NoRide until created)
  driverLocations,  \* store: driver location rows by driverId (NoRow until created)
  tasks,            \* set of handlers (WebSocket or HTTP) suspended on a store call
  sent,             \* sendMessage / ws.send calls and HTTP responses of the last step
  acceptedBy,       \* history: per ride, the drivers whose acceptance reached the confirmation
  evicted           \* history: <<ws, userId, userType, by>> of the authenticated entries removed
                    \* by the heartbeat scan ("heartbeat") or by another connection's auth ("auth")

vars == <<connState, clients, authTimeout, now, rides, driverLocations, tasks, sent,
          acceptedBy, evicted>>

\* stamps: the timestamp columns of the row that have been written
NoRide == [userId |-> Null, passengerId |-> Null, driverId |-> Null, status |-> "none",
           stamps |-> {}]
NoRow  == [status |-> "none", currentRideId |-> Null]
Idle   == [pc |-> "idle", ws |-> 0, userId |-> 0, userType |-> "none", rideId |-> 0,
           status |-> "none", ride |-> NoRide, loc |-> NoRow, drivers |-> {}, targets |-> {}]

\* a handler suspended at store call pc, started for client c (handleMessage's `client`)
Task(pc, c, rideId, status) ==
  [Idle EXCEPT !.pc = pc, !.ws = c.ws, !.userId = c.userId, !.userType = c.userType,
               !.rideId = rideId, !.status = status]

\* JavaScript truthiness of an id: 0, null and undefined are falsy.
Truthy(x) == x # 0 /\ x # Null

ConnectedClient(ws, userId, userType, lastActivity) ==
  [ws |-> ws, userId |-> userId, userType |-> userType, lastActivity |-> lastActivity]

\* ------------------------------------------------------------ sequences
RemoveAt(s, i) == [k \in 1..(Len(s) - 1) |-> IF k < i THEN s[k] ELSE s[k + 1]]

\* this.clients.findIndex(client => client.ws === ws), 1-based; 0 when there is none
FindIndexWs(cl, ws) ==
  IF \E i \in 1..Len(cl) : cl[i].ws = ws
  THEN CHOOSE i \in 1..Len(cl) : cl[i].ws = ws /\ \A k \in 1..(i - 1) : cl[k].ws # ws
  ELSE 0

\* this.clients.filter(c => !(c.userId === userId && c.userType === userType))
FilterIdentity(cl, userId, userType) ==
  SelectSeq(cl, LAMBDA c : ~(c.userId = userId /\ c.userType = userType))

\* ------------------------------------------------------------- outbound
\* One sendMessage call: transmitted only when ws.readyState === OPEN.
Frame(to, type, ride, user, ok) ==
  [to |-> to, type |-> type, ride |-> ride, user |-> user, ok |-> ok, msg |-> "",
   open |-> connState[to] = "open"]

SendMessage(ws, type, ride, user, ok) == {Frame(ws, type, ride, user, ok)}

SendError(ws, message) == {[Frame(ws, "error", 0, 0, FALSE) EXCEPT !.msg = message]}

BroadcastToUser(userId, userType, type, ride, user) ==
  {Frame(clients[i].ws, type, ride, user, FALSE) :
     i \in {k \in 1..Len(clients) : clients[k].userId = userId /\ clients[k].userType = userType}}

BroadcastToUserType(userType, type, ride, excludeUsers) ==
  {Frame(clients[i].ws, type, ride, 0, FALSE) :
     i \in {k \in 1..Len(clients) : clients[k].userType = userType
                                     /\ clients[k].userId \notin excludeUsers}}

\* Frames actually put on the wire in the last step.
Delivered == {f \in sent : f.open}

\* ---------------------------------------------------------------- store
GetUser(id)      == id \in DriverIds
GetPassenger(id) == id \in PassengerIds

\* storage.updateDriverLocation(driverId, fields): fields not passed (Null / "none") are kept
UpdateDriverLocation(locs, driverId, status, setRide, rideId) ==
  IF driverId \in DOMAIN locs /\ locs[driverId] # NoRow
  THEN [locs EXCEPT ![driverId] =
          [status        |-> IF status = "none" THEN @.status ELSE status,
           currentRideId |-> IF setRide THEN rideId ELSE @.currentRideId]]
  ELSE locs

CreateDriverLocation(locs, driverId, status) ==
  [locs EXCEPT ![driverId] = [status |-> status, currentRideId |-> Null]]

\* storage.updateRide(id, {driverId?, status})
UpdateRide(rs, id, setDriver, driverId, status) ==
  IF id \in DOMAIN rs /\ rs[id] # NoRide
  THEN [rs EXCEPT ![id] = [@ EXCEPT !.driverId = IF setDriver THEN driverId ELSE @,
                                    !.status   = status]]
  ELSE rs

\* storage.updateRide given a timestamp column (new Date()) among its fields
Stamped(rs, id, column) ==
  IF id \in DOMAIN rs /\ rs[id] # NoRide
  THEN [rs EXCEPT ![id].stamps = @ \cup {column}]
  ELSE rs

GetRideById(id) == IF id \in DOMAIN rides THEN rides[id] ELSE NoRide

\* ---------------------------------------------------------------- tasks
\* At most MaxTasks handlers are in flight, no two of them in the same state on
\* the same connection.
Running  == tasks
FreeTask == Cardinality(tasks) < MaxTasks

AuthPcs   == {"auth_user", "auth_loc", "auth_init"}
FreeAuth  == Cardinality({k \in tasks : k.pc \in AuthPcs}) < MaxAuthTasks

Spawn(rec)       == rec \notin tasks /\ tasks' = tasks \cup {rec}
Finish(k)        == tasks' = tasks \ {k}
Continue(k, rec) == rec \notin tasks /\ tasks' = (tasks \ {k}) \cup {rec}

NPair == 2       \* ride rows of a store that can hold two

Init ==
  /\ connState = [ws \in Conns |-> "idle"]
  /\ clients = <<>>
  /\ authTimeout = [ws \in Conns |-> Null]
  /\ now = 0
  /\ rides = [r \in RideIds |-> NoRide]
  /\ driverLocations = [d \in DriverIds |-> NoRow]
  /\ tasks = {}
  /\ sent = {}
  /\ acceptedBy = [r \in RideIds |-> {}]
  /\ evicted = {}

\* The same server over a store that can hold NPair ride rows.
InitPair ==
  /\ connState = [ws \in Conns |-> "idle"]
  /\ clients = <<>>
  /\ authTimeout = [ws \in Conns |-> Null]
  /\ now = 0
  /\ rides = [r \in 1..NPair |-> NoRide]
  /\ driverLocations = [d \in DriverIds |-> NoRow]
  /\ tasks = {}
  /\ sent = {}
  /\ acceptedBy = [r \in 1..NPair |-> {}]
  /\ evicted = {}

\* wss.on('connection'): the placeholder is registered and the auth timer armed.
Connect(ws) ==
  /\ connState[ws] = "idle"
  /\ connState' = [connState EXCEPT ![ws] = "open"]
  /\ clients' = Append(clients, ConnectedClient(ws, NoUser, "passenger", now))
  /\ authTimeout' = [authTimeout EXCEPT ![ws] = now + AUTH_TIMEOUT]
  /\ sent' = {}
  /\ UNCHANGED <<now, rides, driverLocations, tasks, acceptedBy, evicted>>

\* ------------------------------------------------- message listener: auth
\* Inbound frames: [type, userId, userType, status, rideRequestId]; a field the
\* client left out is 0 (ids) or "none" (strings).
InFrame(type, userId, userType, status, rideRequestId) ==
  [type |-> type, userId |-> userId, userType |-> userType, status |-> status,
   rideRequestId |-> rideRequestId]

Receiving(ws) == connState[ws] \in {"open", "closing"}

\* a registration that appends the new entry and filters nothing
RegisterClientUnfiltered(cl, ws, userId, userType) ==
  Append(cl, ConnectedClient(ws, userId, userType, now))

\* lines 122-146: the authenticated client replaces every entry of the same
\* (userId, userType) and is appended; auth_success goes out with ws.send.
RegisterClient(cl, ws, userId, userType) ==
  Append(FilterIdentity(cl, userId, userType), ConnectedClient(ws, userId, userType, now))

\* the entries of other connections that the filter of lines 131-133 drops
Replaced(cl, ws, userId, userType) ==
  {<<cl[i].ws, userId, userType, "auth">> :
     i \in {j \in 1..Len(cl) : cl[j].userId = userId /\ cl[j].userType = userType /\ cl[j].ws # ws}}

AuthSuccess(ws, userId) == SendMessage(ws, "auth_success", 0, userId, TRUE)

\* lines 92-120: type auth or ping; runs up to the first store call.
ReceiveAuth(ws, f) ==
  /\ Receiving(ws)
  /\ f.type \in {"auth", "ping"}
  /\ authTimeout' = [authTimeout EXCEPT ![ws] = Null]
  /\ IF ~Truthy(f.userId) \/ f.userType = "none"
     THEN /\ sent' = SendError(ws, "Dados de autenticacao invalidos")
          /\ UNCHANGED <<clients, tasks, evicted>>
     ELSE IF f.userType \in {"driver", "passenger"}
     THEN /\ FreeTask /\ FreeAuth
          /\ Spawn(Task("auth_user", ConnectedClient(ws, f.userId, f.userType, now), 0, "none"))
          /\ sent' = {}
          /\ UNCHANGED <<clients, evicted>>
     ELSE /\ clients' = RegisterClient(clients, ws, f.userId, f.userType)
          /\ evicted' = evicted \cup Replaced(clients, ws, f.userId, f.userType)
          /\ sent' = AuthSuccess(ws, f.userId)
          /\ UNCHANGED tasks
  /\ UNCHANGED <<connState, now, rides, driverLocations, acceptedBy>>

\* an auth branch that registers the client whatever the lookup answered
AuthUserUnchecked(k) ==
  /\ k.pc = "auth_user"
  /\ clients' = RegisterClient(clients, k.ws, k.userId, k.userType)
  /\ evicted' = evicted \cup Replaced(clients, k.ws, k.userId, k.userType)
  /\ sent' = AuthSuccess(k.ws, k.userId)
  /\ IF k.userType = "driver"
     THEN Continue(k, [k EXCEPT !.pc = "auth_loc"])
     ELSE Finish(k)
  /\ UNCHANGED <<connState, authTimeout, now, rides, driverLocations, acceptedBy>>

\* lines 109-151: getUser / getPassenger answered; registration; a driver goes on
\* to read its location row.
AuthUser(k) ==
  LET userExists == IF k.userType = "driver" THEN GetUser(k.userId) ELSE GetPassenger(k.userId)
  IN /\ k.pc = "auth_user"
     /\ IF ~userExists
        THEN /\ sent' = SendError(k.ws, "Usuario nao encontrado")
             /\ Finish(k)
             /\ UNCHANGED <<clients, evicted>>
        ELSE /\ clients' = RegisterClient(clients, k.ws, k.userId, k.userType)
             /\ evicted' = evicted \cup Replaced(clients, k.ws, k.userId, k.userType)
             /\ sent' = AuthSuccess(k.ws, k.userId)
             /\ IF k.userType = "driver"
                THEN Continue(k, [k EXCEPT !.pc = "auth_loc"])
                ELSE Finish(k)
     /\ UNCHANGED <<connState, authTimeout, now, rides, driverLocations, acceptedBy>>

\* line 151: getDriverLocationByDriverId answered.
AuthLoc(k) ==
     /\ k.pc = "auth_loc"
     /\ Continue(k, [k EXCEPT !.pc = "auth_init", !.loc = driverLocations[k.userId]])
     /\ sent' = {}
     /\ UNCHANGED <<connState, clients, authTimeout, now, rides, driverLocations, acceptedBy, evicted>>

\* lines 153-166: status from the row read, or a default offline row.
AuthInit(k) ==
     /\ k.pc = "auth_init"
     /\ driverLocations' =
          IF k.loc # NoRow
          THEN UpdateDriverLocation(driverLocations, k.userId,
                 IF Truthy(k.loc.currentRideId) THEN "busy" ELSE "available", FALSE, Null)
          ELSE CreateDriverLocation(driverLocations, k.userId, "offline")
     /\ Finish(k)
     /\ sent' = {}
     /\ UNCHANGED <<connState, clients, authTimeout, now, rides, acceptedBy, evicted>>

\* ---------------------------------------------------------- close handler
\* a close handler that also drops the handlers the connection has in flight
CloseCancels(ws) ==
  LET i == FindIndexWs(clients, ws)
  IN /\ Receiving(ws)
     /\ connState' = [connState EXCEPT ![ws] = "closed"]
     /\ authTimeout' = [authTimeout EXCEPT ![ws] = Null]
     /\ IF i # 0
        THEN /\ driverLocations' =
                  IF clients[i].userType = "driver"
                  THEN UpdateDriverLocation(driverLocations, clients[i].userId, "offline", FALSE, Null)
                  ELSE driverLocations
             /\ clients' = RemoveAt(clients, i)
        ELSE UNCHANGED <<driverLocations, clients>>
     /\ tasks' = {k \in tasks : k.ws # ws}
     /\ sent' = {}
     /\ UNCHANGED <<now, rides, acceptedBy, evicted>>

\* lines 190-217: the first entry of this ws is removed; a driver entry is set
\* offline first.
Close(ws) ==
  LET i == FindIndexWs(clients, ws)
  IN /\ Receiving(ws)
     /\ connState' = [connState EXCEPT ![ws] = "closed"]
     /\ authTimeout' = [authTimeout EXCEPT ![ws] = Null]
     /\ IF i # 0
        THEN /\ driverLocations' =
                  IF clients[i].userType = "driver"
                  THEN UpdateDriverLocation(driverLocations, clients[i].userId, "offline", FALSE, Null)
                  ELSE driverLocations
             /\ clients' = RemoveAt(clients, i)
        ELSE UNCHANGED <<driverLocations, clients>>
     /\ sent' = {}
     /\ UNCHANGED <<now, rides, tasks, acceptedBy, evicted>>

\* ------------------------------------------------------------ auth timer
\* a timer callback that reports the timeout and leaves the socket open
AuthTimeoutFireNoClose(ws) ==
  /\ authTimeout[ws] # Null
  /\ now >= authTimeout[ws]
  /\ authTimeout' = [authTimeout EXCEPT ![ws] = Null]
  /\ sent' = IF connState[ws] = "open" THEN SendError(ws, "Timeout de autenticacao") ELSE {}
  /\ UNCHANGED <<connState, clients, now, rides, driverLocations, tasks, acceptedBy, evicted>>

\* lines 80-85
AuthTimeoutFire(ws) ==
  /\ authTimeout[ws] # Null
  /\ now >= authTimeout[ws]
  /\ authTimeout' = [authTimeout EXCEPT ![ws] = Null]
  /\ IF connState[ws] = "open"
     THEN /\ sent' = SendError(ws, "Timeout de autenticacao")
          /\ connState' = [connState EXCEPT ![ws] = "closing"]
     ELSE /\ sent' = {}
          /\ UNCHANGED connState
  /\ UNCHANGED <<clients, now, rides, driverLocations, tasks, acceptedBy, evicted>>

\* ------------------------------------------------------------- heartbeat
Stale(c, t) == t - c.lastActivity > HEARTBEAT_TIMEOUT

\* this.clients.forEach((client, index) => { ... this.clients.splice(index, 1) }):
\* forEach visits indices 0..n-1 of the array as it is when each index comes up,
\* n being the length when forEach began.  Result: <<clients, set of entries removed>>.
RECURSIVE HeartbeatScan(_, _, _, _, _)
HeartbeatScan(cl, index, n, t, removed) ==
  IF index > n THEN <<cl, removed>>
  ELSE IF index > Len(cl) THEN HeartbeatScan(cl, index + 1, n, t, removed)
  ELSE IF Stale(cl[index], t)
       THEN HeartbeatScan(RemoveAt(cl, index), index + 1, n, t, removed \cup {cl[index]})
       ELSE HeartbeatScan(cl, index + 1, n, t, removed)

\* lines 225-244: one tick of setInterval, HEARTBEAT_INTERVAL after the previous one.
\* An armed auth timer whose deadline has passed fires before the next tick.
Heartbeat ==
  LET t == now + HEARTBEAT_INTERVAL
      r == HeartbeatScan(clients, 1, Len(clients), t, {})
  IN /\ t <= MaxTicks * HEARTBEAT_INTERVAL
     /\ \A ws \in Conns : authTimeout[ws] # Null => authTimeout[ws] > now
     /\ now' = t
     /\ clients' = r[1]
     /\ connState' = [ws \in Conns |->
                        IF ws \in {c.ws : c \in r[2]} /\ connState[ws] = "open"
                        THEN "closing" ELSE connState[ws]]
     /\ evicted' = evicted \cup {<<c.ws, c.userId, c.userType, "heartbeat">> :
                                    c \in {e \in r[2] : e.userId # NoUser}}
     /\ sent' = {}
     /\ UNCHANGED <<authTimeout, rides, driverLocations, tasks, acceptedBy>>

\* The same tick with the origin of time moved along: `now` stays and every
\* timestamp and deadline is HEARTBEAT_INTERVAL older afterwards, so that time
\* needs no horizon.  An entry older than OldestAge is as stale as one of that age.
OldestAge == HEARTBEAT_TIMEOUT + HEARTBEAT_INTERVAL

Aged(c) ==
  [c EXCEPT !.lastActivity = IF @ - HEARTBEAT_INTERVAL < now - OldestAge
                             THEN now - OldestAge ELSE @ - HEARTBEAT_INTERVAL]

HeartbeatShifted ==
  LET t == now + HEARTBEAT_INTERVAL
      r == HeartbeatScan(clients, 1, Len(clients), t, {})
  IN /\ \A ws \in Conns : authTimeout[ws] # Null => authTimeout[ws] > now
     /\ clients' = [i \in 1..Len(r[1]) |-> Aged(r[1][i])]
     /\ authTimeout' = [ws \in Conns |->
                          IF authTimeout[ws] = Null THEN Null
                          ELSE authTimeout[ws] - HEARTBEAT_INTERVAL]
     /\ connState' = [ws \in Conns |->
                        IF ws \in {c.ws : c \in r[2]} /\ connState[ws] = "open"
                        THEN "closing" ELSE connState[ws]]
     /\ evicted' = evicted \cup {<<c.ws, c.userId, c.userType, "heartbeat">> :
                                    c \in {e \in r[2] : e.userId # NoUser}}
     /\ sent' = {}
     /\ UNCHANGED <<now, rides, driverLocations, tasks, acceptedBy>>

\* ------------------------------------------- handlers: up to the first await
\* Each yields [task |-> the suspended handler, or Idle when it returned,
\*              sent |-> the frames it sent before suspending].
Returned(frames) == [task |-> Idle, sent |-> frames]
Suspended(rec)   == [task |-> rec, sent |-> {}]

\* lines 291-300
HandleDriverLocationUpdate(f, c) ==
  IF c.userType # "driver"
  THEN Returned(SendError(c.ws, "Apenas motoristas podem atualizar localizacao"))
  ELSE Suspended(Task("loc_update", c, 0, f.status))

\* lines 337-346
HandleDriverStatusUpdate(f, c) ==
  IF c.userType # "driver"
  THEN Returned(SendError(c.ws, "Apenas motoristas podem atualizar status"))
  ELSE Suspended(Task("status_update", c, 0, f.status))

\* lines 473-512: test notification to every driver entry whose socket is open
SimulateRideRequestForTesting(c) ==
  {Frame(clients[i].ws, "new_ride_request", now, 999999, FALSE) :
     i \in {j \in 1..Len(clients) : clients[j].userType = "driver"
                                     /\ connState[clients[j].ws] = "open"}}
  \cup SendMessage(c.ws, "ride_request_success", now, 0, TRUE)

\* lines 354-385
HandleRideRequest(f, c) ==
  IF c.userType # "passenger" /\ c.userType # "driver"
  THEN Returned(SendError(c.ws, "Apenas passageiros e motoristas podem solicitar corridas"))
  ELSE IF c.userType = "driver"
  THEN Returned(SimulateRideRequestForTesting(c))
  ELSE Suspended(Task("req_create", c, 0, "none"))

\* a handler that lets any role accept
HandleRideAcceptedAnyRole(f, c) == Suspended(Task("acc_ride", c, f.rideRequestId, "none"))

\* lines 518-528
HandleRideAccepted(f, c) ==
  IF c.userType # "driver"
  THEN Returned(SendError(c.ws, "Apenas motoristas podem aceitar corridas"))
  ELSE Suspended(Task("acc_ride", c, f.rideRequestId, "none"))

\* lines 590-600
HandleRideStarted(f, c) ==
  IF c.userType # "driver"
  THEN Returned(SendError(c.ws, "Apenas motoristas podem iniciar corridas"))
  ELSE Suspended(Task("start_ride", c, f.rideRequestId, "none"))

\* lines 647-657
HandleRideCompleted(f, c) ==
  IF c.userType # "driver"
  THEN Returned(SendError(c.ws, "Apenas motoristas podem completar corridas"))
  ELSE Suspended(Task("comp_ride", c, f.rideRequestId, "none"))

\* lines 711-716
HandleRideCanceled(f, c) == Suspended(Task("can_ride", c, f.rideRequestId, "none"))

\* a router that answers a type it has no handler for with an error
HandleMessageStrict(f, c) ==
  CASE f.type = "driver_location_update" -> HandleDriverLocationUpdate(f, c)
    [] f.type = "driver_status_update"   -> HandleDriverStatusUpdate(f, c)
    [] f.type = "ride_request"           -> HandleRideRequest(f, c)
    [] f.type = "ride_accepted"          -> HandleRideAccepted(f, c)
    [] f.type = "ride_started"           -> HandleRideStarted(f, c)
    [] f.type = "ride_completed"         -> HandleRideCompleted(f, c)
    [] f.type = "ride_canceled"          -> HandleRideCanceled(f, c)
    [] OTHER                             -> Returned(SendError(c.ws, "Tipo de mensagem nao reconhecido"))

\* lines 246-289
HandleMessage(f, c) ==
  CASE f.type = "driver_location_update" -> HandleDriverLocationUpdate(f, c)
    [] f.type = "driver_status_update"   -> HandleDriverStatusUpdate(f, c)
    [] f.type = "ride_request"           -> HandleRideRequest(f, c)
    [] f.type = "ride_accepted"          -> HandleRideAccepted(f, c)
    [] f.type = "ride_started"           -> HandleRideStarted(f, c)
    [] f.type = "ride_completed"         -> HandleRideCompleted(f, c)
    [] f.type = "ride_canceled"          -> HandleRideCanceled(f, c)
    [] OTHER                             -> Returned({})

\* rows createRideRequest may still create (the store's serial is capped)
RidesLeft ==
  Cardinality({r \in DOMAIN rides : rides[r] = NoRide})
         - Cardinality({k \in Running : k.pc = "req_create"})

\* the entry the listener hands to handleMessage: this.clients[clientIndex]
\* with clientIndex = findIndex(client => client.ws === ws)
ClientOf(cl, ws) == cl[FindIndexWs(cl, ws)]

\* lines 172-183: any frame whose type is neither auth nor ping
ReceiveFrame(ws, f) ==
  LET clientIndex == FindIndexWs(clients, ws)
  IN /\ Receiving(ws)
     /\ f.type \notin {"auth", "ping"}
     /\ IF clientIndex = 0
        THEN /\ sent' = SendError(ws, "Cliente nao autenticado")
             /\ UNCHANGED <<clients, tasks>>
        ELSE LET h == HandleMessage(f, ClientOf(clients, ws))
             IN /\ clients' = [clients EXCEPT ![clientIndex].lastActivity = now]
                /\ sent' = h.sent
                /\ IF h.task = Idle
                   THEN UNCHANGED tasks
                   ELSE /\ FreeTask
                        /\ h.task.pc = "req_create" => RidesLeft > 0
                        /\ Spawn(h.task)
     /\ UNCHANGED <<connState, authTimeout, now, rides, driverLocations, acceptedBy, evicted>>

\* ------------------------------------------------ handlers: store continuations
StoreOnly  == <<connState, clients, authTimeout, now>>

\* line 300: updateDriverLocation(client.userId, {latitude, ..., status})
LocUpdate(k) ==
  /\ k.pc = "loc_update"
  /\ driverLocations' = UpdateDriverLocation(driverLocations, k.userId, k.status, FALSE, Null)
  /\ Continue(k, [k EXCEPT !.pc = "loc_read"])
  /\ sent' = {}
  /\ UNCHANGED <<StoreOnly, rides, acceptedBy, evicted>>

\* lines 310-314: getDriverLocationByDriverId
LocRead(k) ==
  /\ k.pc = "loc_read"
  /\ IF Truthy(driverLocations[k.userId].currentRideId)
     THEN Continue(k, [k EXCEPT !.pc = "loc_ride", !.rideId = driverLocations[k.userId].currentRideId])
     ELSE Finish(k)
  /\ sent' = {}
  /\ UNCHANGED <<StoreOnly, rides, driverLocations, acceptedBy, evicted>>

\* lines 314-328: getRideById, relay to the ride's passenger
LocRide(k) ==
  LET ride == GetRideById(k.rideId)
  IN /\ k.pc = "loc_ride"
     /\ sent' = IF ride # NoRide /\ Truthy(ride.userId)
                THEN BroadcastToUser(ride.userId, "passenger", "driver_location_update", k.rideId, k.userId)
                ELSE {}
     /\ Finish(k)
     /\ UNCHANGED <<StoreOnly, rides, driverLocations, acceptedBy, evicted>>

\* line 346
StatusUpdate(k) ==
  /\ k.pc = "status_update"
  /\ driverLocations' = UpdateDriverLocation(driverLocations, k.userId, k.status, FALSE, Null)
  /\ Finish(k)
  /\ sent' = {}
  /\ UNCHANGED <<StoreOnly, rides, acceptedBy, evicted>>

\* storage.createRideRequest(rideRequestData): next serial id, the fields passed
CreateRideRequest(rs, passengerId) ==
  LET id == CHOOSE r \in DOMAIN rs : rs[r] = NoRide /\ \A q \in DOMAIN rs : q < r => rs[q] # NoRide
  IN [rs EXCEPT ![id] = [userId |-> Null, passengerId |-> passengerId,
                         driverId |-> Null, status |-> "pending",
                         stamps |-> {"requestTime"}]]

NewRideId(rs) == CHOOSE r \in DOMAIN rs : rs[r] = NoRide /\ \A q \in DOMAIN rs : q < r => rs[q] # NoRide

\* a handler that stores the row without its passenger
ReqCreateUnowned(k) ==
  /\ k.pc = "req_create"
  /\ \E r \in DOMAIN rides : rides[r] = NoRide
  /\ rides' = CreateRideRequest(rides, Null)
  /\ Continue(k, [k EXCEPT !.pc = "req_find", !.rideId = NewRideId(rides)])
  /\ sent' = {}
  /\ UNCHANGED <<StoreOnly, driverLocations, acceptedBy, evicted>>

\* lines 368-385
ReqCreate(k) ==
  /\ k.pc = "req_create"
  /\ \E r \in DOMAIN rides : rides[r] = NoRide
  /\ rides' = CreateRideRequest(rides, k.userId)
  /\ Continue(k, [k EXCEPT !.pc = "req_find", !.rideId = NewRideId(rides)])
  /\ sent' = {}
  /\ UNCHANGED <<StoreOnly, driverLocations, acceptedBy, evicted>>

\* storage.getAvailableDriversNearLocation: every available driver is taken to be
\* within the radius of the origin
GetAvailableDriversNearLocation == {d \in DriverIds : driverLocations[d].status = "available"}

\* a handler that has no fallback: with no candidate nobody is picked
ReqFindNoFallback(k) ==
  /\ k.pc = "req_find"
  /\ Continue(k, [k EXCEPT !.pc = "req_pass", !.drivers = GetAvailableDriversNearLocation,
                           !.targets = {}])
  /\ sent' = {}
  /\ UNCHANGED <<StoreOnly, rides, driverLocations, acceptedBy, evicted>>

\* lines 387-402: the candidates; with none, the driver entries of the registry
\* are picked here, before getPassenger is awaited
ReqFind(k) ==
  LET availableDrivers == GetAvailableDriversNearLocation
      driverClients == {clients[i].ws : i \in {j \in 1..Len(clients) : clients[j].userType = "driver"}}
  IN /\ k.pc = "req_find"
     /\ Continue(k, [k EXCEPT !.pc = "req_pass", !.drivers = availableDrivers,
                              !.targets = IF availableDrivers = {} THEN driverClients ELSE {}])
     /\ sent' = {}
     /\ UNCHANGED <<StoreOnly, rides, driverLocations, acceptedBy, evicted>>

\* a handler that notifies every driver entry whatever the locator returned
ReqPassAllDrivers(k) ==
  /\ k.pc = "req_pass"
  /\ sent' = BroadcastToUserType("driver", "new_ride_request", k.rideId, {})
             \cup SendMessage(k.ws, "ride_request", k.rideId, 0, TRUE)
  /\ Finish(k)
  /\ UNCHANGED <<StoreOnly, rides, driverLocations, acceptedBy, evicted>>

\* lines 404-465: getPassenger answered; notifications and the acknowledgement
ReqPass(k) ==
  /\ k.pc = "req_pass"
  /\ sent' = (IF k.drivers = {}
              THEN {Frame(w, "new_ride_request", k.rideId, k.userId, FALSE) : w \in k.targets}
              ELSE UNION {BroadcastToUser(d, "driver", "new_ride_request", k.rideId, k.userId) :
                            d \in k.drivers})
             \cup SendMessage(k.ws, "ride_request", k.rideId, 0, TRUE)
  /\ Finish(k)
  /\ UNCHANGED <<StoreOnly, rides, driverLocations, acceptedBy, evicted>>

\* ------------------------------------------------------------ ride_accepted
\* a handler that accepts whatever the status of the ride it read
AccRideUnchecked(k) ==
  LET ride == GetRideById(k.rideId)
  IN /\ k.pc = "acc_ride"
     /\ IF ride = NoRide
        THEN sent' = SendError(k.ws, "Corrida nao encontrada") /\ Finish(k)
        ELSE sent' = {} /\ Continue(k, [k EXCEPT !.pc = "acc_loc", !.ride = ride])
     /\ UNCHANGED <<StoreOnly, rides, driverLocations, acceptedBy, evicted>>

\* lines 528-541: getRideById answered
AccRide(k) ==
  LET ride == GetRideById(k.rideId)
  IN /\ k.pc = "acc_ride"
     /\ IF ride = NoRide
        THEN sent' = SendError(k.ws, "Corrida nao encontrada") /\ Finish(k)
        ELSE IF ride.status # "pending"
        THEN sent' = SendError(k.ws, "Esta corrida nao esta mais disponivel") /\ Finish(k)
        ELSE sent' = {} /\ Continue(k, [k EXCEPT !.pc = "acc_loc", !.ride = ride])
     /\ UNCHANGED <<StoreOnly, rides, driverLocations, acceptedBy, evicted>>

\* lines 541-549: getDriverLocationByDriverId answered
AccLoc(k) ==
  /\ k.pc = "acc_loc"
  /\ IF Truthy(driverLocations[k.userId].currentRideId)
     THEN sent' = SendError(k.ws, "Voce ja esta em uma corrida ativa") /\ Finish(k)
     ELSE sent' = {} /\ Continue(k, [k EXCEPT !.pc = "acc_update"])
  /\ UNCHANGED <<StoreOnly, rides, driverLocations, acceptedBy, evicted>>

\* lines 549-555: updateRide(rideRequestId, {driverId, status: 'accepted'})
AccUpdate(k) ==
  /\ k.pc = "acc_update"
  /\ rides' = UpdateRide(rides, k.rideId, TRUE, k.userId, "accepted")
  /\ Continue(k, [k EXCEPT !.pc = "acc_busy"])
  /\ sent' = {}
  /\ UNCHANGED <<StoreOnly, driverLocations, acceptedBy, evicted>>

\* lines 555-582: updateDriverLocation, the notifications and the confirmation
AccBusy(k) ==
  /\ k.pc = "acc_busy"
  /\ driverLocations' = UpdateDriverLocation(driverLocations, k.userId, "busy", TRUE, k.rideId)
  /\ sent' = (IF Truthy(k.ride.userId)
              THEN BroadcastToUser(k.ride.userId, "passenger", "ride_accepted", k.rideId, k.userId)
              ELSE {})
             \cup BroadcastToUserType("driver", "ride_rejected", k.rideId, {k.userId})
             \cup SendMessage(k.ws, "ride_accepted", k.rideId, k.userId, TRUE)
  /\ acceptedBy' = [acceptedBy EXCEPT ![k.rideId] = @ \cup {k.userId}]
  /\ Finish(k)
  /\ UNCHANGED <<StoreOnly, rides, evicted>>

\* ------------------------------------------------------------- ride_started
\* lines 600-618
StartRide(k) ==
  LET ride == GetRideById(k.rideId)
  IN /\ k.pc = "start_ride"
     /\ IF ride = NoRide
        THEN sent' = SendError(k.ws, "Corrida nao encontrada") /\ Finish(k)
        ELSE IF ride.driverId # k.userId
        THEN sent' = SendError(k.ws, "Voce nao esta atribuido a esta corrida") /\ Finish(k)
        ELSE IF ride.status # "accepted"
        THEN sent' = SendError(k.ws, "Esta corrida nao pode ser iniciada") /\ Finish(k)
        ELSE sent' = {} /\ Continue(k, [k EXCEPT !.pc = "start_update", !.ride = ride])
     /\ UNCHANGED <<StoreOnly, rides, driverLocations, acceptedBy, evicted>>

\* lines 618-639
StartUpdate(k) ==
  /\ k.pc = "start_update"
  /\ rides' = Stamped(UpdateRide(rides, k.rideId, FALSE, Null, "active"), k.rideId, "startTime")
  /\ sent' = (IF Truthy(k.ride.userId)
              THEN BroadcastToUser(k.ride.userId, "passenger", "ride_started", k.rideId, k.userId)
              ELSE {})
             \cup SendMessage(k.ws, "ride_started", k.rideId, k.userId, TRUE)
  /\ Finish(k)
  /\ UNCHANGED <<StoreOnly, driverLocations, acceptedBy, evicted>>

\* ----------------------------------------------------------- ride_completed
\* lines 657-675
CompRide(k) ==
  LET ride == GetRideById(k.rideId)
  IN /\ k.pc = "comp_ride"
     /\ IF ride = NoRide
        THEN sent' = SendError(k.ws, "Corrida nao encontrada") /\ Finish(k)
        ELSE IF ride.driverId # k.userId
        THEN sent' = SendError(k.ws, "Voce nao esta atribuido a esta corrida") /\ Finish(k)
        ELSE IF ride.status # "active"
        THEN sent' = SendError(k.ws, "Esta corrida nao esta ativa") /\ Finish(k)
        ELSE sent' = {} /\ Continue(k, [k EXCEPT !.pc = "comp_update", !.ride = ride])
     /\ UNCHANGED <<StoreOnly, rides, driverLocations, acceptedBy, evicted>>

\* lines 675-681
CompUpdate(k) ==
  /\ k.pc = "comp_update"
  /\ rides' = Stamped(UpdateRide(rides, k.rideId, FALSE, Null, "completed"), k.rideId, "endTime")
  /\ Continue(k, [k EXCEPT !.pc = "comp_free"])
  /\ sent' = {}
  /\ UNCHANGED <<StoreOnly, driverLocations, acceptedBy, evicted>>

\* lines 681-703
CompFree(k) ==
  /\ k.pc = "comp_free"
  /\ driverLocations' = UpdateDriverLocation(driverLocations, k.userId, "available", TRUE, Null)
  /\ sent' = (IF Truthy(k.ride.userId)
              THEN BroadcastToUser(k.ride.userId, "passenger", "ride_completed", k.rideId, k.userId)
              ELSE {})
             \cup SendMessage(k.ws, "ride_completed", k.rideId, k.userId, TRUE)
  /\ Finish(k)
  /\ UNCHANGED <<StoreOnly, rides, acceptedBy, evicted>>

\* ------------------------------------------------------------ ride_canceled
\* lines 723-732: who may cancel
MayCancel(k, ride) ==
  /\ ~(k.userType = "passenger" /\ ride.userId # k.userId)
  /\ ~(k.userType = "driver" /\ ride.driverId # k.userId)

\* lines 749-771: the counterparty is told, then the canceller
CancelNotices(k) ==
  (IF k.userType = "passenger" /\ Truthy(k.ride.driverId)
   THEN BroadcastToUser(k.ride.driverId, "driver", "ride_canceled", k.rideId, k.userId)
   ELSE IF k.userType = "driver" /\ Truthy(k.ride.userId)
   THEN BroadcastToUser(k.ride.userId, "passenger", "ride_canceled", k.rideId, k.userId)
   ELSE {})
  \cup SendMessage(k.ws, "ride_canceled", k.rideId, k.userId, TRUE)

\* lines 716-735
CanRide(k) ==
  LET ride == GetRideById(k.rideId)
  IN /\ k.pc = "can_ride"
     /\ IF ride = NoRide
        THEN sent' = SendError(k.ws, "Corrida nao encontrada") /\ Finish(k)
        ELSE IF ~MayCancel(k, ride)
        THEN sent' = SendError(k.ws, "Voce nao pode cancelar esta corrida") /\ Finish(k)
        ELSE sent' = {} /\ Continue(k, [k EXCEPT !.pc = "can_update", !.ride = ride])
     /\ UNCHANGED <<StoreOnly, rides, driverLocations, acceptedBy, evicted>>

\* lines 735-741: updateRide(rideRequestId, {status: 'canceled'})
CanUpdate(k) ==
  /\ k.pc = "can_update"
  /\ rides' = UpdateRide(rides, k.rideId, FALSE, Null, "canceled")
  /\ IF Truthy(k.ride.driverId)
     THEN sent' = {} /\ Continue(k, [k EXCEPT !.pc = "can_free"])
     ELSE sent' = CancelNotices(k) /\ Finish(k)
  /\ UNCHANGED <<StoreOnly, driverLocations, acceptedBy, evicted>>

\* lines 741-771: the assigned driver is freed
CanFree(k) ==
  /\ k.pc = "can_free"
  /\ driverLocations' = UpdateDriverLocation(driverLocations, k.ride.driverId, "available", TRUE, Null)
  /\ sent' = CancelNotices(k)
  /\ Finish(k)
  /\ UNCHANGED <<StoreOnly, rides, acceptedBy, evicted>>

\* ------------------------------------------------------------ store failures
\* The store call a ride handler is suspended on rejects: the handler's catch
\* block (lines 584-587, 641-644, 705-708, 773-776) sends its error and the
\* handler ends.
ErrorOf(pc) ==
  CASE pc \in {"acc_ride", "acc_loc", "acc_update", "acc_busy"} -> "Erro ao aceitar corrida"
    [] pc \in {"start_ride", "start_update"}                     -> "Erro ao iniciar corrida"
    [] pc \in {"comp_ride", "comp_update", "comp_free"}          -> "Erro ao completar corrida"
    [] pc \in {"can_ride", "can_update", "can_free"}             -> "Erro ao cancelar corrida"

\* a catch block that reports the failure to every session
StoreFailsLoud(k) ==
  /\ k.pc \in {"acc_ride", "acc_loc", "acc_update", "acc_busy", "start_ride", "start_update",
               "comp_ride", "comp_update", "comp_free", "can_ride", "can_update", "can_free"}
  /\ sent' = SendError(k.ws, ErrorOf(k.pc))
               \cup UNION {SendError(clients[i].ws, ErrorOf(k.pc)) : i \in 1..Len(clients)}
  /\ Finish(k)
  /\ UNCHANGED <<StoreOnly, rides, driverLocations, acceptedBy, evicted>>

StoreFails(k) ==
  /\ k.pc \in {"acc_ride", "acc_loc", "acc_update", "acc_busy", "start_ride", "start_update",
               "comp_ride", "comp_update", "comp_free", "can_ride", "can_update", "can_free"}
  /\ sent' = SendError(k.ws, ErrorOf(k.pc))
  /\ Finish(k)
  /\ UNCHANGED <<StoreOnly, rides, driverLocations, acceptedBy, evicted>>

\* A store call of the auth branch rejects (lines 110, 113, 151, 155, 160): the
\* listener's catch block (lines 184-187) sends its error; what the branch did
\* before the call stays.
AuthStoreFails(k) ==
  /\ k.pc \in AuthPcs
  /\ sent' = SendError(k.ws, "Erro ao processar mensagem")
  /\ Finish(k)
  /\ UNCHANGED <<StoreOnly, rides, driverLocations, acceptedBy, evicted>>

\* A store call of handleRideRequest rejects: catch block of lines 467-470.
RequestStoreFails(k) ==
  /\ k.pc \in {"req_create", "req_find", "req_pass"}
  /\ sent' = SendError(k.ws, "Erro ao criar solicitacao de corrida")
  /\ Finish(k)
  /\ UNCHANGED <<StoreOnly, rides, driverLocations, acceptedBy, evicted>>

\* A frame that is not JSON: JSON.parse throws (line 89) and the listener's
\* catch block answers (lines 184-187); nothing else has run.
ParseFails(ws) ==
  /\ Receiving(ws)
  /\ sent' = SendError(ws, "Erro ao processar mensagem")
  /\ UNCHANGED <<connState, clients, authTimeout, now, rides, driverLocations, tasks,
                 acceptedBy, evicted>>

\* A ride_canceled frame without payload: the destructuring of line 712 throws
\* outside the handler's try, handleMessage's catch block answers (lines 285-288).
HandlerThrows(ws) ==
  LET clientIndex == FindIndexWs(clients, ws)
  IN /\ Receiving(ws)
     /\ IF clientIndex = 0
        THEN /\ sent' = SendError(ws, "Cliente nao autenticado")
             /\ UNCHANGED clients
        ELSE /\ clients' = [clients EXCEPT ![clientIndex].lastActivity = now]
             /\ sent' = SendError(ws, "Erro interno do servidor")
     /\ UNCHANGED <<connState, authTimeout, now, rides, driverLocations, tasks, acceptedBy, evicted>>

\* ------------------------------------- HTTP: POST /api/rides/:rideId/accept
\* (src/unnamed/part_002, lines 4611-4665; the table is the one the WebSocket
\* handlers reach through the store)
HttpUsers == DriverIds \cup {UnknownId, NoUser}    \* req.user?.id of the session

\* res.status(code).json({message})
HttpResponse(code, userId, rideId, message) ==
  {[to |-> 0, type |-> code, ride |-> rideId, user |-> userId, ok |-> code = "http_200",
    msg |-> message, open |-> TRUE]}

HttpPcs == {"http_user", "http_ride", "http_active", "http_update"}

\* lines 4611-4621: the request arrives; without a session user it is refused,
\* otherwise the handler awaits the users row
HttpAccept(userId, rideId) ==
  /\ IF ~Truthy(userId)
     THEN /\ sent' = HttpResponse("http_401", userId, rideId, "Usuario nao autenticado")
          /\ UNCHANGED tasks
     ELSE /\ FreeTask
          /\ Spawn([Idle EXCEPT !.pc = "http_user", !.userId = userId, !.rideId = rideId])
          /\ sent' = {}
  /\ UNCHANGED <<StoreOnly, rides, driverLocations, acceptedBy, evicted>>

\* lines 4621-4627: select from users where id = userId
HttpUser(k) ==
  /\ k.pc = "http_user"
  /\ IF ~GetUser(k.userId)
     THEN sent' = HttpResponse("http_403", k.userId, k.rideId, "Acesso restrito a motoristas")
          /\ Finish(k)
     ELSE sent' = {} /\ Continue(k, [k EXCEPT !.pc = "http_ride"])
  /\ UNCHANGED <<StoreOnly, rides, driverLocations, acceptedBy, evicted>>

\* lines 4627-4637: select from rideRequests where id = rideId
HttpRide(k) ==
  LET ride == GetRideById(k.rideId)
  IN /\ k.pc = "http_ride"
     /\ IF ride = NoRide
        THEN sent' = HttpResponse("http_404", k.userId, k.rideId, "Corrida nao encontrada")
             /\ Finish(k)
        ELSE IF ride.status # "pending"
        THEN sent' = HttpResponse("http_400", k.userId, k.rideId, "Corrida nao esta mais disponivel")
             /\ Finish(k)
        ELSE sent' = {} /\ Continue(k, [k EXCEPT !.pc = "http_active"])
     /\ UNCHANGED <<StoreOnly, rides, driverLocations, acceptedBy, evicted>>

\* lines 4637-4646: select from rideRequests where driverId = userId
HttpActive(k) ==
  LET activeRides == {r \in DOMAIN rides : rides[r].driverId = k.userId}
      hasActiveRide == \E r \in activeRides : rides[r].status = "accepted"
  IN /\ k.pc = "http_active"
     /\ IF hasActiveRide
        THEN sent' = HttpResponse("http_400", k.userId, k.rideId, "Voce ja tem uma corrida ativa")
             /\ Finish(k)
        ELSE sent' = {} /\ Continue(k, [k EXCEPT !.pc = "http_update"])
     /\ UNCHANGED <<StoreOnly, rides, driverLocations, acceptedBy, evicted>>

\* lines 4646-4660: update rideRequests set status, driverId, acceptedAt
\* where id = rideId returning *; the response
HttpUpdate(k) ==
  LET updated == GetRideById(k.rideId) # NoRide
  IN /\ k.pc = "http_update"
     /\ IF ~updated
        THEN /\ sent' = HttpResponse("http_404", k.userId, k.rideId, "Corrida nao encontrada ou ja aceita")
             /\ UNCHANGED <<rides, acceptedBy>>
        ELSE /\ rides' = [rides EXCEPT ![k.rideId] =
                            [@ EXCEPT !.status = "accepted", !.driverId = k.userId,
                                      !.stamps = @ \cup {"acceptedAt"}]]
             /\ sent' = HttpResponse("http_200", k.userId, k.rideId, "Corrida aceita com sucesso")
             /\ acceptedBy' = [acceptedBy EXCEPT ![k.rideId] = @ \cup {k.userId}]
     /\ Finish(k)
     /\ UNCHANGED <<StoreOnly, driverLocations, evicted>>

HttpStep(k) == HttpUser(k) \/ HttpRide(k) \/ HttpActive(k) \/ HttpUpdate(k)

\* ------------------------------------------------------------ specifications
\* What the clients send.
AuthFrames ==
  {InFrame("auth", d, "driver", "none", 0) : d \in DriverIds}
  \cup {InFrame("auth", p, "passenger", "none", 0) : p \in PassengerIds}
  \cup {InFrame("auth", UnknownId, "driver", "none", 0), InFrame("ping", 0, "none", "none", 0)}

RideFrames ==
  {InFrame(ty, 0, "none", "none", r) :
     ty \in {"ride_accepted", "ride_started", "ride_completed", "ride_canceled"}, r \in RideIds}
  \cup {InFrame("ride_request", 0, "none", "none", 0)}

DriverFrames ==
  {InFrame("driver_status_update", 0, "none", st, 0) : st \in Statuses}
  \cup {InFrame("driver_location_update", 0, "none", st, 0) : st \in {"none", "offline"}}

AuthStep(k) == AuthUser(k) \/ AuthLoc(k) \/ AuthInit(k)

RideStep(k) ==
  \/ ReqCreate(k) \/ ReqFind(k) \/ ReqPass(k)
  \/ AccRide(k) \/ AccLoc(k) \/ AccUpdate(k) \/ AccBusy(k)
  \/ StartRide(k) \/ StartUpdate(k)
  \/ CompRide(k) \/ CompUpdate(k) \/ CompFree(k)
  \/ CanRide(k) \/ CanUpdate(k) \/ CanFree(k)

DriverStep(k) == LocUpdate(k) \/ LocRead(k) \/ LocRide(k) \/ StatusUpdate(k)

\* Session registry and heartbeat: any connection may claim any identity.
RegistryAuth ==
  {InFrame("auth", 1, "driver", "none", 0),
   InFrame("auth", UnknownId, "driver", "none", 0), InFrame("ping", 0, "none", "none", 0)}

RegistryFrames == {InFrame("feature_toggle_update", 0, "none", "none", 0)}

NextRegistry ==
  \/ \E ws \in Conns : Connect(ws)
  \/ \E ws \in Conns, f \in RegistryAuth : ReceiveAuth(ws, f)
  \/ \E ws \in Conns, f \in RegistryFrames : ReceiveFrame(ws, f)
  \/ \E k \in Running : AuthStep(k)
  \/ \E ws \in Conns : Close(ws)
  \/ \E ws \in Conns : AuthTimeoutFire(ws)
  \/ Heartbeat

SpecRegistry == Init /\ [][NextRegistry]_vars

\* Session registry and heartbeat with no horizon: the timer callbacks and the
\* interval callback are run by the event loop whenever they are due, and the
\* store answers every call; what the clients send, and when, is up to them.
NextLive ==
  \/ \E ws \in Conns : Connect(ws)
  \/ \E ws \in Conns, f \in RegistryAuth : ReceiveAuth(ws, f)
  \/ \E ws \in Conns, f \in RegistryFrames : ReceiveFrame(ws, f)
  \/ \E k \in Running : AuthStep(k)
  \/ \E ws \in Conns : Close(ws)
  \/ \E ws \in Conns : AuthTimeoutFire(ws)
  \/ HeartbeatShifted

SpecLive ==
  /\ Init /\ [][NextLive]_vars
  /\ WF_vars(HeartbeatShifted)
  /\ \A ws \in Conns : WF_vars(AuthTimeoutFire(ws))
  /\ WF_vars(\E k \in Running : AuthStep(k))

\* Binding of identities: any connection may claim any identity, as driver,
\* passenger or admin; no time passes.
BindAuth ==
  {InFrame("auth", 1, "driver", "none", 0), InFrame("auth", 3, "passenger", "none", 0),
   InFrame("auth", UnknownId, "passenger", "none", 0), InFrame("auth", UnknownId, "admin", "none", 0),
   InFrame("auth", 0, "none", "none", 0)}

NextBind ==
  \/ \E ws \in Conns : Connect(ws)
  \/ \E ws \in Conns, f \in BindAuth : ReceiveAuth(ws, f)
  \/ \E k \in Running : AuthStep(k)
  \/ \E ws \in Conns : Close(ws)

SpecBind == Init /\ [][NextBind]_vars

\* Ride lifecycle: connection i is the device of driver i.
DeviceAuth(ws) == {InFrame("auth", ws, "driver", "none", 0)}

\* The devices connect before the first heartbeat and send their auth frame
\* before it too, so that no auth timer is armed when time advances.
Prompt == \A ws \in Conns : authTimeout[ws] = Null

\* A frame arrives only when no handler is in flight.
Quiet == tasks = {}

NextRides ==
  \/ \E ws \in Conns : now = 0 /\ Connect(ws)
  \/ \E ws \in Conns : \E f \in DeviceAuth(ws) : Quiet /\ ReceiveAuth(ws, f)
  \/ \E ws \in Conns, f \in RideFrames \cup DriverFrames : Quiet /\ ReceiveFrame(ws, f)
  \/ \E k \in Running : AuthStep(k)
  \/ \E k \in Running : RideStep(k)
  \/ \E k \in Running : DriverStep(k)
  \/ \E ws \in Conns : Close(ws)
  \/ Prompt /\ Heartbeat

SpecRides == Init /\ [][NextRides]_vars

\* The accept race: the ride_accepted handlers of different connections
\* interleave; every other frame arrives when no handler is in flight.
RaceFrames == {InFrame("ride_accepted", 0, "none", "none", r) : r \in RideIds}

Accepting == \A k \in tasks : k.pc \in {"acc_ride", "acc_loc", "acc_update", "acc_busy"}

NextRace ==
  \/ \E ws \in Conns : now = 0 /\ Connect(ws)
  \/ \E ws \in Conns : \E f \in DeviceAuth(ws) : Quiet /\ ReceiveAuth(ws, f)
  \/ \E ws \in Conns : Quiet /\ ReceiveFrame(ws, InFrame("ride_request", 0, "none", "none", 0))
  \/ \E ws \in Conns, f \in RaceFrames : Accepting /\ ReceiveFrame(ws, f)
  \/ \E k \in Running : AuthStep(k)
  \/ \E k \in Running : ReqCreate(k) \/ ReqFind(k) \/ ReqPass(k)
  \/ \E k \in Running : AccRide(k) \/ AccLoc(k) \/ AccUpdate(k) \/ AccBusy(k)
  \/ \E ws \in Conns : connState[ws] = "closing" /\ Close(ws)
  \/ Prompt /\ Heartbeat

SpecRace == Init /\ [][NextRace]_vars

\* The accept race followed by the trip: ride_accepted, ride_started and
\* ride_completed frames arrive while the handlers of earlier ones are still
\* suspended on the store.
TripFrames ==
  {InFrame(ty, 0, "none", "none", r) :
     ty \in {"ride_accepted", "ride_started", "ride_completed"}, r \in RideIds}

InTrip ==
  \A k \in tasks : k.pc \in {"acc_ride", "acc_loc", "acc_update", "acc_busy", "start_ride",
                             "start_update", "comp_ride", "comp_update", "comp_free"}

NextTrip ==
  \/ \E ws \in Conns : now = 0 /\ Connect(ws)
  \/ \E ws \in Conns : \E f \in DeviceAuth(ws) : now = 0 /\ Quiet /\ ReceiveAuth(ws, f)
  \/ \E ws \in Conns : Quiet /\ ReceiveFrame(ws, InFrame("ride_request", 0, "none", "none", 0))
  \/ \E ws \in Conns, f \in TripFrames : InTrip /\ ReceiveFrame(ws, f)
  \/ \E k \in Running : AuthStep(k)
  \/ \E k \in Running : ReqCreate(k) \/ ReqFind(k) \/ ReqPass(k)
  \/ \E k \in Running : AccRide(k) \/ AccLoc(k) \/ AccUpdate(k) \/ AccBusy(k)
  \/ \E k \in Running : StartRide(k) \/ StartUpdate(k)
  \/ \E k \in Running : CompRide(k) \/ CompUpdate(k) \/ CompFree(k)
  \/ \E ws \in Conns : connState[ws] = "closing" /\ Close(ws)
  \/ Prompt /\ Heartbeat

SpecTrip == Init /\ [][NextTrip]_vars

\* Ride lifecycle with a store whose calls may fail, one handler at a time.
NextFaults ==
  \/ \E ws \in Conns : now = 0 /\ Connect(ws)
  \/ \E ws \in Conns : \E f \in DeviceAuth(ws) : Quiet /\ ReceiveAuth(ws, f)
  \/ \E ws \in Conns, f \in RideFrames : Quiet /\ ReceiveFrame(ws, f)
  \/ \E k \in Running : AuthStep(k)
  \/ \E k \in Running : RideStep(k)
  \/ \E k \in Running : StoreFails(k)
  \/ \E ws \in Conns : connState[ws] = "closing" /\ Close(ws)
  \/ Prompt /\ Heartbeat

SpecFaults == Init /\ [][NextFaults]_vars

\* Every failure the router catches: frames that do not parse, handlers that
\* throw, store calls that reject; one handler at a time, rides requested,
\* accepted and started.
ErrorFrames ==
  {InFrame("ride_request", 0, "none", "none", 0)}
  \cup {InFrame(ty, 0, "none", "none", r) : ty \in {"ride_accepted", "ride_started"}, r \in RideIds}

NextErrors ==
  \/ \E ws \in Conns : now = 0 /\ Connect(ws)
  \/ \E ws \in Conns : \E f \in DeviceAuth(ws) : now = 0 /\ Quiet /\ ReceiveAuth(ws, f)
  \/ \E ws \in Conns, f \in ErrorFrames : Quiet /\ ReceiveFrame(ws, f)
  \/ \E ws \in Conns : Quiet /\ ParseFails(ws)
  \/ \E ws \in Conns : Quiet /\ HandlerThrows(ws)
  \/ \E k \in Running : AuthStep(k)
  \/ \E k \in Running : RideStep(k)
  \/ \E k \in Running : StoreFails(k)
  \/ \E k \in Running : AuthStoreFails(k)
  \/ \E k \in Running : RequestStoreFails(k)
  \/ \E ws \in Conns : connState[ws] = "closing" /\ Close(ws)
  \/ Prompt /\ Heartbeat

SpecErrors == Init /\ [][NextErrors]_vars

\* Frames in arrival order on a connection: ride_started, ride_completed and
\* ride_canceled frames arrive while the handlers of earlier ones are still
\* suspended on the store (the listener does not await handleMessage, line 182).
LifecycleFrames ==
  {InFrame(ty, 0, "none", "none", r) :
     ty \in {"ride_started", "ride_completed", "ride_canceled"}, r \in RideIds}

InLifecycle ==
  \A k \in tasks : k.pc \in {"start_ride", "start_update", "comp_ride", "comp_update",
                             "comp_free", "can_ride", "can_update", "can_free"}

NextOrder ==
  \/ \E ws \in Conns : now = 0 /\ Connect(ws)
  \/ \E ws \in Conns : \E f \in DeviceAuth(ws) : Quiet /\ ReceiveAuth(ws, f)
  \/ \E ws \in Conns : Quiet /\ ReceiveFrame(ws, InFrame("ride_request", 0, "none", "none", 0))
  \/ \E ws \in Conns, f \in RaceFrames : Quiet /\ ReceiveFrame(ws, f)
  \/ \E ws \in Conns, f \in LifecycleFrames : InLifecycle /\ ReceiveFrame(ws, f)
  \/ \E k \in Running : AuthStep(k)
  \/ \E k \in Running : RideStep(k)
  \/ \E ws \in Conns : connState[ws] = "closing" /\ Close(ws)
  \/ Prompt /\ Heartbeat

SpecOrder == Init /\ [][NextOrder]_vars

\* The parties of a ride: connection 1 is the device of driver 1, connection 2
\* that of passenger 3 or of an operator (role admin); the devices authenticate
\* as soon as they are connected; one handler at a time.
PartyAuth(ws) ==
  IF ws = 1 THEN {InFrame("auth", 1, "driver", "none", 0)}
  ELSE {InFrame("auth", 3, "passenger", "none", 0), InFrame("auth", UnknownId, "admin", "none", 0)}

NextParties ==
  \/ \E ws \in Conns : now = 0 /\ Connect(ws)
  \/ \E ws \in Conns : \E f \in PartyAuth(ws) : now = 0 /\ Quiet /\ ReceiveAuth(ws, f)
  \/ \E ws \in Conns, f \in RideFrames : Quiet /\ ReceiveFrame(ws, f)
  \/ \E k \in Running : AuthStep(k)
  \/ \E k \in Running : RideStep(k)
  \/ \E ws \in Conns : connState[ws] = "closing" /\ Close(ws)
  \/ Prompt /\ Heartbeat

SpecParties == Init /\ [][NextParties]_vars

\* Ride requests: the devices of driver 1 and of passenger 3 (or an operator)
\* send ride_request frames while the handlers of earlier ones are suspended on
\* a store that can hold NPair rows and whose calls may fail.
Requesting == \A k \in tasks : k.pc \in {"req_create", "req_find", "req_pass"}

NextRequests ==
  \/ \E ws \in Conns : now = 0 /\ Connect(ws)
  \/ \E ws \in Conns : \E f \in PartyAuth(ws) : now = 0 /\ Quiet /\ ReceiveAuth(ws, f)
  \/ \E ws \in Conns : Requesting /\ ReceiveFrame(ws, InFrame("ride_request", 0, "none", "none", 0))
  \/ \E k \in Running : AuthStep(k)
  \/ \E k \in Running : ReqCreate(k) \/ ReqFind(k) \/ ReqPass(k)
  \/ \E k \in Running : RequestStoreFails(k)
  \/ \E ws \in Conns : connState[ws] = "closing" /\ Close(ws)
  \/ Prompt /\ Heartbeat

SpecRequests == InitPair /\ [][NextRequests]_vars

\* Two rides: the rides are requested before the devices authenticate; the
\* ride_accepted handlers interleave, the other lifecycle frames are handled
\* one at a time.
PairAccepts == {InFrame("ride_accepted", 0, "none", "none", r) : r \in 1..NPair}

PairFrames ==
  {InFrame(ty, 0, "none", "none", r) :
     ty \in {"ride_started", "ride_completed", "ride_canceled"}, r \in 1..NPair}

NextPair ==
  \/ \E ws \in Conns : now = 0 /\ Connect(ws)
  \/ \E ws \in Conns : \E f \in DeviceAuth(ws) : now = 0 /\ Quiet /\ ReceiveAuth(ws, f)
  \/ \E ws \in Conns : now = 0 /\ Quiet /\ ReceiveFrame(ws, InFrame("ride_request", 0, "none", "none", 0))
  \/ \E ws \in Conns, f \in PairAccepts : Accepting /\ ReceiveFrame(ws, f)
  \/ \E ws \in Conns, f \in PairFrames : Quiet /\ ReceiveFrame(ws, f)
  \/ \E k \in Running : AuthStep(k)
  \/ \E k \in Running : RideStep(k)
  \/ \E ws \in Conns : connState[ws] = "closing" /\ Close(ws)
  \/ Prompt /\ Heartbeat

SpecPair == InitPair /\ [][NextPair]_vars

\* The HTTP accept endpoint: rides are requested over the WebSocket, accept
\* requests of the drivers' sessions arrive at any time and their handlers
\* interleave at every await.
NextHttp ==
  \/ \E ws \in Conns : now = 0 /\ Connect(ws)
  \/ \E ws \in Conns : Quiet /\ ReceiveFrame(ws, InFrame("ride_request", 0, "none", "none", 0))
  \/ \E k \in Running : ReqCreate(k) \/ ReqFind(k) \/ ReqPass(k)
  \/ \E u \in HttpUsers, r \in 1..(NPair + 1) : HttpAccept(u, r)
  \/ \E k \in Running : HttpStep(k)

SpecHttp == InitPair /\ [][NextHttp]_vars

Next ==
  \/ \E ws \in Conns : Connect(ws)
  \/ \E ws \in Conns, f \in AuthFrames : ReceiveAuth(ws, f)
  \/ \E ws \in Conns, f \in RideFrames \cup DriverFrames : ReceiveFrame(ws, f)
  \/ \E k \in Running : AuthStep(k) \/ RideStep(k) \/ DriverStep(k)
  \/ \E ws \in Conns : Close(ws)
  \/ \E ws \in Conns : AuthTimeoutFire(ws)
  \/ Heartbeat

Spec == Init /\ [][Next]_vars

\* ------------------------------------------------------------------ claims

\* C1: at most one acceptance. For every ride, the ride_accepted attempts that
\* reached the confirmation {success: true} come from a single driver, and that
\* driver is the ride's driverId.
C1_AtMostOneAcceptance ==
  \A r \in RideIds :
    /\ Cardinality(acceptedBy[r]) <= 1
    /\ \A d \in acceptedBy[r] : rides[r].driverId = d

\* C2: state-machine legality. Every change of a ride's status is one of
\* pending->accepted, accepted->active, active->completed, pending->canceled,
\* accepted->canceled (a row is created as pending); nothing leaves completed or
\* canceled, and no cancellation changes an active ride.
LegalTransitions ==
  {<<"none", "pending">>, <<"pending", "accepted">>, <<"accepted", "active">>,
   <<"active", "completed">>, <<"pending", "canceled">>, <<"accepted", "canceled">>}

C2_LegalTransitions ==
  [][\A r \in RideIds :
       rides'[r].status # rides[r].status
         => <<rides[r].status, rides'[r].status>> \in LegalTransitions]_vars

\* C3: identity uniqueness. The registry never holds two entries of the same
\* authenticated (userId, userType) pair, and the step that registers a pair for
\* one connection leaves no entry of that pair for another connection.
AuthenticatedAt(cl) == {i \in 1..Len(cl) : cl[i].userId # NoUser}

C3_IdentityUniqueness ==
  \A i, j \in AuthenticatedAt(clients) :
    (clients[i].userId = clients[j].userId /\ clients[i].userType = clients[j].userType)
      => i = j

\* a pair bound to one connection was bound again by another one: the earlier
\* entry is gone and the pair's only entry belongs to the later connection
C3_Rebound ==
  \E e \in evicted :
    /\ e[4] = "auth"
    /\ \E i \in AuthenticatedAt(clients) :
         /\ clients[i].userId = e[2] /\ clients[i].userType = e[3] /\ clients[i].ws # e[1]
         /\ connState[e[1]] = "open"

\* C4: before authentication, a frame that is neither auth nor ping is answered
\* with an error frame to its connection and nothing else happens: no handler
\* is left running on the store and no frame goes to anybody else.
C4_PreAuthDropped ==
  [][\A ws \in Conns : \A f \in RideFrames \cup DriverFrames :
       (authTimeout[ws] # Null /\ ReceiveFrame(ws, f))
         => /\ tasks' = tasks
            /\ sent' # {}
            /\ \A m \in sent' : m.type = "error" /\ m.to = ws]_vars

\* C5: heartbeat eviction. After a tick no entry that is stale at that tick is
\* left in the registry.
C5_StaleRemoved ==
  [][now' # now => \A i \in 1..Len(clients') : ~Stale(clients'[i], now')]_vars

\* C6: a driver session evicted by the heartbeat has its location row offline
\* once the eviction is through, i.e. when the close handler of the connection
\* the heartbeat closed has run (unless the driver has a session again).
DriverBack(d) ==
  \/ \E i \in 1..Len(clients') : clients'[i].userId = d /\ clients'[i].userType = "driver"
  \/ \E k \in tasks : k.userId = d /\ k.pc \in AuthPcs

C6_EvictedDriverOffline ==
  [][\A ws \in Conns : \A d \in DriverIds :
       (/\ <<ws, d, "driver", "heartbeat">> \in evicted
        /\ connState[ws] = "closing" /\ connState'[ws] = "closed"
        /\ driverLocations[d] # NoRow
        /\ ~DriverBack(d))
         => driverLocations'[d].status = "offline"]_vars

\* C7: a valid frame on an authenticated connection sets the lastActivity of
\* that connection's authenticated entry to the time of the frame.
C7_ActivityRecorded ==
  [][\A ws \in Conns : \A f \in RegistryFrames :
       ReceiveFrame(ws, f)
         => \A i \in AuthenticatedAt(clients) :
              clients[i].ws = ws => clients'[i].lastActivity = now]_vars

\* C8: driverId is write-once. Once a ride has a driver, no step gives it a
\* different one.
C8_DriverWriteOnce ==
  [][\A r \in RideIds :
       Truthy(rides[r].driverId) => rides'[r].driverId = rides[r].driverId]_vars

\* C9: a ride has a driverId exactly when its status is accepted, active or
\* completed.
C9_DriverIffAssigned ==
  \A r \in RideIds :
    rides[r] # NoRide
      => (Truthy(rides[r].driverId) <=> rides[r].status \in {"accepted", "active", "completed"})

\* C10: a driver location row is busy exactly when it has a currentRideId.
C10_BusyIffRide ==
  \A d \in DriverIds :
    driverLocations[d] # NoRow
      => (driverLocations[d].status = "busy" <=> Truthy(driverLocations[d].currentRideId))

\* C11: completion frees the driver. Whenever the confirmation
\* ride_completed{success: true} goes out to driver d for ride r, r is completed
\* and d's location row is available with no currentRideId.
C11_CompletionFreesDriver ==
  \A m \in sent :
    (m.type = "ride_completed" /\ m.ok)
      => /\ rides[m.ride].status = "completed"
         /\ driverLocations[m.user] = [status |-> "available", currentRideId |-> Null]

\* C12: fallback broadcast. When the handler of a ride_request that found no
\* available driver sends its notifications, every driver entry of the registry
\* whose socket is open is sent new_ride_request with the id of the ride just
\* created, and the frame goes out on the wire.
C12_FallbackBroadcast ==
  [][\A k \in tasks :
       (ReqPass(k) /\ k.drivers = {})
         => /\ k.rideId \in RideIds /\ rides[k.rideId].status = "pending"
            /\ \A i \in 1..Len(clients) :
                 (clients[i].userType = "driver" /\ connState[clients[i].ws] = "open")
                   => \E m \in sent' : /\ m.to = clients[i].ws /\ m.open
                                        /\ m.type = "new_ride_request" /\ m.ride = k.rideId]_vars

\* a ride was requested while no driver was available, and a driver session
\* got its new_ride_request on an open socket
C12_DriverNotified ==
  /\ GetAvailableDriversNearLocation = {}
  /\ \E m \in sent :
       /\ m.type = "new_ride_request" /\ m.open
       /\ m.ride \in RideIds /\ rides[m.ride].status = "pending"
       /\ \E i \in 1..Len(clients) : clients[i].ws = m.to /\ clients[i].userType = "driver"

\* C13: state-conflict errors. When ride_accepted reads a ride that is not
\* pending, ride_started one that is not accepted, or ride_completed one that is
\* not active, the handler ends there: its only frames are error frames to the
\* sender, and neither the ride rows nor the driver location rows change.
WrongState(k) ==
  LET ride == GetRideById(k.rideId)
  IN /\ ride # NoRide
     /\ \/ AccRide(k)   /\ ride.status # "pending"
        \/ StartRide(k) /\ ride.status # "accepted"
        \/ CompRide(k)  /\ ride.status # "active"

C14_NoPartialWrites ==
  [][\A k \in tasks :
       (StoreFails(k) /\ k.ride # NoRide)
         => /\ \E m \in sent' : m.type = "error" /\ m.to = k.ws
            /\ rides'[k.rideId] = k.ride]_vars

\* C15: an entry is bound to (userId, userType) only if the store holds a record
\* of that id for the claimed role; for a role without a table of its own, only
\* if some table holds the id at all.
Resolves(userId, userType) ==
  CASE userType = "driver"    -> GetUser(userId)
    [] userType = "passenger" -> GetPassenger(userId)
    [] OTHER                  -> GetUser(userId) \/ GetPassenger(userId)

C15_BoundOnlyIfKnown ==
  \A i \in AuthenticatedAt(clients) : Resolves(clients[i].userId, clients[i].userType)

\* C16: a failed auth attempt (a frame without userId or userType, or a userId
\* the store does not know for the role) sends an error frame to the connection,
\* which reaches it if its socket is open, and changes neither the registry nor
\* the state of any socket; a valid attempt is registered and confirmed whatever
\* was refused before.
AuthRefused(ws) ==
  /\ \E m \in sent' : m.type = "error" /\ m.to = ws /\ (connState[ws] = "open" => m.open)
  /\ \A m \in sent' : m.type = "error" /\ m.to = ws
  /\ clients' = clients
  /\ connState' = connState

AuthAccepted(k) ==
  /\ Len(clients') > 0
  /\ clients'[Len(clients')] = ConnectedClient(k.ws, k.userId, k.userType, now)
  /\ \E m \in sent' : m.type = "auth_success" /\ m.to = k.ws /\ m.user = k.userId

C16_FailedAuthHarmless ==
  [][/\ \A ws \in Conns : \A f \in BindAuth :
          (ReceiveAuth(ws, f) /\ (~Truthy(f.userId) \/ f.userType = "none")) => AuthRefused(ws)
     /\ \A k \in tasks :
          AuthUser(k) => IF Resolves(k.userId, k.userType) THEN AuthAccepted(k)
                                                            ELSE AuthRefused(k.ws)]_vars

\* an open connection has just been told that the user it claimed is unknown,
\* and has no authenticated entry
C16_UnknownUserRefused ==
  \E m \in sent :
    /\ m.type = "error" /\ m.msg = "Usuario nao encontrado" /\ m.open
    /\ connState[m.to] = "open"
    /\ \A i \in AuthenticatedAt(clients) : clients[i].ws # m.to

\* C17: when an auth binds a pair held by an entry of another connection, that
\* connection's socket is closed by the step, and auth_success, carrying the
\* userId, goes to the binding connection only.
C17_EvictionClosesOther ==
  [][\A e \in evicted' \ evicted :
       e[4] = "auth"
         => /\ connState'[e[1]] # "open"
            /\ \A m \in sent' : m.type = "auth_success" => (m.to # e[1] /\ m.user = e[2])]_vars

\* C18: the grace window. As long as neither auth nor ping has arrived on a
\* connection its timer stays armed, whatever other frames arrive, and the
\* connection is never open past the deadline; when the timer fires the
\* connection is sent the timeout error on its open socket and is closed.
GraceArmed ==
  \A ws \in Conns :
    authTimeout[ws] # Null => (connState[ws] = "open" /\ now <= authTimeout[ws])

C18_GraceTimeoutCloses ==
  /\ []GraceArmed
  /\ [][/\ \A ws \in Conns : \A f \in RegistryFrames :
             ReceiveFrame(ws, f) => authTimeout' = authTimeout
        /\ \A ws \in Conns :
             AuthTimeoutFire(ws)
               => /\ sent' = SendError(ws, "Timeout de autenticacao")
                  /\ \A m \in sent' : m.open
                  /\ connState'[ws] = "closing"]_vars

\* the timer has just closed a connection although it sent a frame (neither
\* auth nor ping) at that very instant
C18_TimedOutDespiteFrames ==
  \E ws \in Conns :
    /\ connState[ws] = "closing" /\ now > 0
    /\ \E m \in sent : m.to = ws /\ m.msg = "Timeout de autenticacao" /\ m.open
    /\ \E i \in 1..Len(clients) :
         clients[i].ws = ws /\ clients[i].userId = NoUser /\ clients[i].lastActivity = now

\* C19: a ping without payload on an authenticated connection is answered with
\* a pong to that connection, never with an error, and refreshes the lastActivity
\* of the connection's authenticated entry.
EmptyPing == InFrame("ping", 0, "none", "none", 0)

C19_PingAnswered ==
  [][\A ws \in Conns :
       (ReceiveAuth(ws, EmptyPing) /\ \E i \in AuthenticatedAt(clients) : clients[i].ws = ws)
         => /\ \E m \in sent' : m.type = "pong" /\ m.to = ws
            /\ \A m \in sent' : m.type # "error"
            /\ \A i \in AuthenticatedAt(clients) :
                 clients[i].ws = ws => clients'[i].lastActivity = now]_vars

\* C20: frames of one connection are processed in arrival order. Two handlers
\* of the same connection are never both in the middle of their store calls:
\* whichever frame came second, its handler has made no store call before the
\* other handler has made its last one.
FirstPcs ==
  {"auth_user", "loc_update", "status_update", "req_create",
   "acc_ride", "start_ride", "comp_ride", "can_ride"}

C20_ArrivalOrder ==
  \A k1, k2 \in tasks :
    (k1 # k2 /\ k1.ws = k2.ws) => (k1.pc \in FirstPcs \/ k2.pc \in FirstPcs)


\* C21: ride_canceled changes a ride only for the passenger who owns it or the
\* driver assigned to it. A handler that has read the ride for any other
\* requester ends there: its only frames are error frames to the sender, no row
\* changes; and the status is written only for an entitled requester.
Entitled(k, ride) ==
  \/ k.userType = "passenger" /\ ride.passengerId = k.userId
  \/ k.userType = "driver" /\ Truthy(ride.driverId) /\ ride.driverId = k.userId

C21_OnlyPartiesCancel ==
  [][\A k \in tasks :
       /\ (CanRide(k) /\ GetRideById(k.rideId) # NoRide /\ ~Entitled(k, GetRideById(k.rideId)))
            => /\ sent' # {} /\ \A m \in sent' : m.type = "error" /\ m.to = k.ws
               /\ tasks' = tasks \ {k}
       /\ (CanUpdate(k) /\ rides' # rides) => Entitled(k, rides[k.rideId])]_vars


\* C22: a ride_accepted, ride_started or ride_completed frame handled for a
\* client whose role is not driver is answered with one error frame to the
\* sender that names the restriction; the handler makes no store call (no
\* handler is left suspended, no row changes) and nobody else is sent anything.
DriverOnly(type) ==
  CASE type = "ride_accepted"  -> "Apenas motoristas podem aceitar corridas"
    [] type = "ride_started"   -> "Apenas motoristas podem iniciar corridas"
    [] type = "ride_completed" -> "Apenas motoristas podem completar corridas"

C22_WrongRoleRefused ==
  [][\A ws \in Conns : \A f \in RideFrames :
       (/\ f.type \in {"ride_accepted", "ride_started", "ride_completed"}
        /\ FindIndexWs(clients, ws) # 0
        /\ ClientOf(clients, ws).userType # "driver"
        /\ ReceiveFrame(ws, f))
         => /\ sent' = SendError(ws, DriverOnly(f.type))
            /\ tasks' = tasks
            /\ rides' = rides /\ driverLocations' = driverLocations]_vars

\* an operator's connection, handled under its admin entry, has just been
\* refused a ride_accepted
C22_AdminRefused ==
  \E m \in sent :
    /\ m.msg = "Apenas motoristas podem aceitar corridas"
    /\ FindIndexWs(clients, m.to) # 0
    /\ ClientOf(clients, m.to).userType = "admin"


\* C23: a frame of a type the router has no handler for, arriving on a
\* connection that has an authenticated entry, sends nothing (no error frame
\* either), starts no handler, and leaves the ride rows, the driver location
\* rows and the entries of the registry (whose, for which identity) as they were.
Entries(cl) == {<<i, cl[i].ws, cl[i].userId, cl[i].userType>> : i \in 1..Len(cl)}

C23_UnknownTypeIgnored ==
  [][\A ws \in Conns : \A f \in RegistryFrames :
       (ReceiveFrame(ws, f) /\ \E i \in AuthenticatedAt(clients) : clients[i].ws = ws)
         => /\ sent' = {}
            /\ tasks' = tasks
            /\ rides' = rides /\ driverLocations' = driverLocations
            /\ Entries(clients') = Entries(clients)]_vars

\* a connection got such a frame after it had authenticated (the frame's time is
\* on the connection's first entry, later than the authentication), and nothing
\* was sent
C23_IgnoredAfterAuth ==
  /\ sent = {}
  /\ \E i \in 1..Len(clients) : \E j \in AuthenticatedAt(clients) :
       /\ i = FindIndexWs(clients, clients[j].ws)
       /\ clients[i].lastActivity = now
       /\ clients[i].lastActivity > clients[j].lastActivity
       /\ connState[clients[j].ws] = "open"


\* C24: a failure while a frame is processed (the frame does not parse, the
\* handler throws, a store call rejects) ends in error frames to the connection
\* that sent the frame and in nothing else: no frame to anybody else, every
\* registry entry as it was (but for the sender's lastActivity), no socket
\* closed, no other handler dropped; the router goes on taking frames.
FailureOn(ws) ==
  \/ ParseFails(ws)
  \/ HandlerThrows(ws)
  \/ \E k \in tasks : k.ws = ws /\ (StoreFails(k) \/ AuthStoreFails(k) \/ RequestStoreFails(k))

C24_FailureContained ==
  [][\A ws \in Conns :
       FailureOn(ws)
         => /\ sent' # {} /\ \A m \in sent' : m.type = "error" /\ m.to = ws
            /\ Entries(clients') = Entries(clients)
            /\ \A i \in 1..Len(clients) : clients[i].ws # ws => clients'[i] = clients[i]
            /\ connState' = connState
            /\ \A k \in tasks : k.ws # ws => k \in tasks']_vars

\* the store failed a driver's ride_accepted after the ride row was written (no
\* acceptance was ever confirmed), and the router has since processed that
\* driver's ride_started
C24_ProcessedAfterFailure ==
  \E m \in sent :
    /\ m.type = "ride_started" /\ m.ok
    /\ rides[m.ride].status = "active"
    /\ acceptedBy[m.ride] = {}


\* C25: closing a connection cancels no handler, its own or another
\* connection's: the close handler leaves every suspended handler in place, a
\* handler whose connection is closed can always take its next step, and the
\* store writes it then makes are applied (the ride's status is written, the
\* driver's row is freed).
Freed == [status |-> "available", currentRideId |-> Null]

HandlersProceed ==
  \A k \in tasks :
    connState[k.ws] = "closed" => ENABLED (AuthStep(k) \/ RideStep(k) \/ DriverStep(k))

C25_CloseCancelsNothing ==
  /\ []HandlersProceed
  /\ [][/\ \A ws \in Conns : Close(ws) => tasks' = tasks
        /\ \A k \in tasks :
             connState[k.ws] = "closed"
               => /\ CompUpdate(k) => rides'[k.rideId].status = "completed"
                  /\ CompFree(k)   => driverLocations'[k.userId] = Freed
                  /\ CanUpdate(k)  => rides'[k.rideId].status = "canceled"
                  /\ CanFree(k)    => driverLocations'[k.ride.driverId] = Freed]_vars

\* a ride_completed handler has just finished on a connection that was closed
\* while the handler was suspended: the ride is completed and the driver freed
C25_CompletedAfterClose ==
  \E m \in sent :
    /\ m.type = "ride_completed" /\ m.ok
    /\ connState[m.to] = "closed"
    /\ rides[m.ride].status = "completed"
    /\ driverLocations[m.user] = Freed


\* C26: once a connection has an authenticated entry, every frame that is
\* neither auth nor ping is handled under the identity of that entry (the latest
\* one, had it authenticated more than once), never under the placeholder's.
LastAuthenticated(cl, ws) ==
  cl[CHOOSE i \in AuthenticatedAt(cl) :
       cl[i].ws = ws /\ \A j \in AuthenticatedAt(cl) : cl[j].ws = ws => j <= i]

C26_HandledAsAuthenticated ==
  [][\A ws \in Conns :
       ((\E i \in AuthenticatedAt(clients) : clients[i].ws = ws)
          /\ \E f \in RideFrames \cup DriverFrames : ReceiveFrame(ws, f))
         => /\ ClientOf(clients, ws).userId = LastAuthenticated(clients, ws).userId
            /\ ClientOf(clients, ws).userType = LastAuthenticated(clients, ws).userType]_vars


\* C27: every open connection has at most one entry in the registry.
EntriesOf(ws) == {i \in 1..Len(clients) : clients[i].ws = ws}

C27_OneEntryPerConnection ==
  \A ws \in Conns : connState[ws] = "open" => Cardinality(EntriesOf(ws)) <= 1

\* C28: once the close event of a connection has been handled, no entry of the
\* registry refers to that connection.
C28_ClosedHasNoEntry ==
  \A ws \in Conns : connState[ws] = "closed" => EntriesOf(ws) = {}


\* C29: with the grace timer and the heartbeat run whenever they are due, every
\* open connection is eventually closed by the server unless it comes to have an
\* authenticated entry, whatever frames it sends.
C29_UnauthenticatedClosed ==
  \A ws \in Conns :
    (connState[ws] = "open")
      ~> (connState[ws] # "open" \/ \E i \in AuthenticatedAt(clients) : clients[i].ws = ws)


\* C30: when a ride_accepted of driver d for ride r goes through (the handler
\* reaches its confirmation), d's row is busy with currentRideId r; every
\* session of r's passenger is sent ride_accepted naming d; every driver entry
\* other than d's is sent ride_rejected for r; d's connection is sent
\* ride_accepted{success: true} and no ride_rejected.
C30_AcceptEffects ==
  [][\A k \in tasks :
       AccBusy(k)
         => /\ driverLocations'[k.userId] = [status |-> "busy", currentRideId |-> k.rideId]
            /\ \A i \in AuthenticatedAt(clients) :
                 (clients[i].userType = "passenger" /\ clients[i].userId = rides[k.rideId].passengerId)
                   => \E m \in sent' : /\ m.to = clients[i].ws /\ m.type = "ride_accepted"
                                        /\ m.ride = k.rideId /\ m.user = k.userId
            /\ \A i \in 1..Len(clients) :
                 (clients[i].userType = "driver" /\ clients[i].userId # k.userId)
                   => \E m \in sent' : /\ m.to = clients[i].ws /\ m.type = "ride_rejected"
                                        /\ m.ride = k.rideId
            /\ \E m \in sent' : m.to = k.ws /\ m.type = "ride_accepted" /\ m.ok /\ m.ride = k.rideId
            /\ \A m \in sent' : m.type = "ride_rejected" => m.to # k.ws]_vars


\* C31: a ride_started or ride_completed handler changes ride r (or a
\* DriverLocation row) only while its driver is the one recorded as r.driverId;
\* when the ride it reads does not exist or names another driver, it sends an
\* error frame to the sender, ends, and leaves the rides and the DriverLocation
\* rows as they were.
C31_OnlyAssignedDriver ==
  [][\A k \in tasks :
       /\ ((StartUpdate(k) \/ CompUpdate(k) \/ CompFree(k))
             /\ (rides' # rides \/ driverLocations' # driverLocations))
            => rides[k.rideId].driverId = k.userId
       /\ ((StartRide(k) \/ CompRide(k))
             /\ (GetRideById(k.rideId) = NoRide \/ GetRideById(k.rideId).driverId # k.userId))
            => /\ \E m \in sent' : m.to = k.ws /\ m.type = "error"
               /\ k \notin tasks'
               /\ rides' = rides /\ driverLocations' = driverLocations]_vars


\* C32: when a ride_canceled on ride r succeeds (the handler reaches its
\* confirmation), r has status canceled; the driver that was assigned to r has
\* a row with status available and no current ride; and the counterparty is
\* sent ride_canceled for r naming the canceller: the sessions of the assigned
\* driver when the passenger cancels, the sessions of r's passenger when the
\* driver cancels.
CancelSucceeds(k) == CanFree(k) \/ (CanUpdate(k) /\ ~Truthy(k.ride.driverId))

C32_CancelEffects ==
  [][\A k \in tasks :
       CancelSucceeds(k)
         => /\ rides'[k.rideId].status = "canceled"
            /\ Truthy(k.ride.driverId) => driverLocations'[k.ride.driverId] = Freed
            /\ \A i \in AuthenticatedAt(clients) :
                 \/ /\ k.userType = "passenger"
                    /\ clients[i].userType = "driver"
                    /\ clients[i].userId = k.ride.driverId
                 \/ /\ k.userType = "driver"
                    /\ clients[i].userType = "passenger"
                    /\ clients[i].userId = k.ride.passengerId
                 => \E m \in sent' : /\ m.to = clients[i].ws /\ m.type = "ride_canceled"
                                      /\ m.ride = k.rideId /\ m.user = k.userId]_vars


RideRequest == InFrame("ride_request", 0, "none", "none", 0)

C34_RequestsFromPassengersOnly ==
  [][/\ \A m \in sent' :
          m.type = "new_ride_request"
            => /\ \E k \in tasks : k.userType = "passenger" /\ ReqPass(k)
               /\ m.ride \in DOMAIN rides /\ rides'[m.ride] # NoRide
     /\ \A ws \in Conns :
          (/\ FindIndexWs(clients, ws) # 0
           /\ ClientOf(clients, ws).userType \in {"driver", "admin"}
           /\ ReceiveFrame(ws, RideRequest))
            => /\ \E m \in sent' : m.to = ws /\ m.type = "error"
               /\ \A m \in sent' : m.type # "new_ride_request"
               /\ rides' = rides /\ tasks' = tasks]_vars


\* C35: when the locator returned a non-empty candidate set for a passenger's
\* ride_request, the new_ride_request frames of the handler all carry the new
\* ride's id and go to exactly the connections of the registry entries of role
\* driver whose userId is a candidate: to no other driver's connection and to
\* no connection that has only passenger or admin entries.
C35_CandidatesOnly ==
  [][\A k \in tasks :
       (ReqPass(k) /\ k.drivers # {})
         => /\ {m.to : m \in {n \in sent' : n.type = "new_ride_request"}}
                 = {clients[i].ws : i \in {j \in 1..Len(clients) :
                                             /\ clients[j].userType = "driver"
                                             /\ clients[j].userId \in k.drivers}}
            /\ \A m \in sent' : m.type = "new_ride_request" => m.ride = k.rideId]_vars

\* an available driver's open connection is sent the new ride while another
\* driver of the registry is not
C35_OnlyCandidateNotified ==
  \E m \in sent :
    /\ m.type = "new_ride_request" /\ m.open
    /\ m.ride \in DOMAIN rides /\ rides[m.ride].status = "pending"
    /\ \E i \in 1..Len(clients) :
         /\ clients[i].ws = m.to /\ clients[i].userType = "driver"
         /\ driverLocations[clients[i].userId].status = "available"
    /\ \E j \in 1..Len(clients) :
         /\ clients[j].userType = "driver" /\ clients[j].ws # m.to
         /\ \A n \in sent : n.to # clients[j].ws


\* C36: in every reachable state no driver is the driverId of two different
\* rides whose status is accepted or active.
Engaged(d) == {r \in DOMAIN rides : rides[r].driverId = d /\ rides[r].status \in {"accepted", "active"}}

C36_OneRidePerDriver == \A d \in DriverIds : Cardinality(Engaged(d)) <= 1


\* C37: for every ride, the timestamp of a transition (acceptedAt for
\* pending -> accepted, the start time for accepted -> active, the end time for
\* active -> completed, canceledAt for -> canceled) is written by the step that
\* makes the transition, was unset before it, and no other step writes a
\* timestamp of the ride.
StampOf(status) ==
  CASE status = "accepted"  -> "acceptedAt"
    [] status = "active"    -> "startTime"
    [] status = "completed" -> "endTime"
    [] status = "canceled"  -> "canceledAt"

Transition(from, to) ==
  \/ from = "pending" /\ to = "accepted"
  \/ from = "accepted" /\ to = "active"
  \/ from = "active" /\ to = "completed"
  \/ from \in {"pending", "accepted", "active"} /\ to = "canceled"

C37_TimestampsOnce ==
  [][\A r \in DOMAIN rides :
       /\ (rides[r] # NoRide /\ Transition(rides[r].status, rides'[r].status))
            => /\ StampOf(rides'[r].status) \notin rides[r].stamps
               /\ rides'[r].stamps = rides[r].stamps \cup {StampOf(rides'[r].status)}
       /\ (rides[r] # NoRide /\ ~Transition(rides[r].status, rides'[r].status))
            => /\ rides'[r].stamps = rides[r].stamps
               /\ \A k \in tasks : k.rideId = r => ~(StartUpdate(k) \/ CompUpdate(k))]_vars


\* C38: for a ride stored with passengerId p, the frames the driver's handlers
\* address to the ride's passenger (ride_accepted, ride_started,
\* ride_completed, ride_canceled) are sent to the sessions of p and to no other
\* passenger, and a ride_canceled of p for its own ride is not refused.
PassengerNotices == {"ride_accepted", "ride_started", "ride_completed", "ride_canceled"}

OwnerOf(r) == {i \in AuthenticatedAt(clients) :
                 clients[i].userType = "passenger" /\ clients[i].userId = rides[r].passengerId}

C38_OwnerFieldRead ==
  [][\A k \in tasks :
       /\ (/\ k.userType = "driver"
           /\ GetRideById(k.rideId).passengerId \in PassengerIds
           /\ (AccBusy(k) \/ StartUpdate(k) \/ CompFree(k) \/ CancelSucceeds(k)))
            => /\ \A i \in OwnerOf(k.rideId) :
                    \E m \in sent' : /\ m.to = clients[i].ws /\ m.ride = k.rideId
                                     /\ m.type \in PassengerNotices
               /\ \A m \in sent' :
                    (m.to # k.ws /\ m.type \in PassengerNotices)
                      => \E i \in OwnerOf(k.rideId) : clients[i].ws = m.to
       /\ (/\ k.userType = "passenger"
           /\ k.userId \in PassengerIds
           /\ GetRideById(k.rideId).passengerId = k.userId
           /\ CanRide(k))
            => \E n \in tasks' : n.ws = k.ws /\ n.pc = "can_update"]_vars


\* C39: when the close event of a connection that has an authenticated driver
\* entry is handled, that driver's DriverLocation row (if it has one) has
\* status offline afterwards.
C39_ClosedDriverOffline ==
  [][\A ws \in Conns :
       Close(ws)
         => \A i \in AuthenticatedAt(clients) :
              (/\ clients[i].ws = ws /\ clients[i].userType = "driver"
               /\ driverLocations[clients[i].userId] # NoRow)
                => driverLocations'[clients[i].userId].status = "offline"]_vars


\* C40: a request to POST /api/rides/:rideId/accept gets the success response
\* only if no earlier request for that ride got it, and the stored driverId is
\* then its driver; a request that gets another response leaves the ride rows
\* as they were.
C40_HttpAcceptOnce ==
  [][\A k \in tasks :
       (k.pc \in HttpPcs /\ HttpStep(k))
         => /\ (\E m \in sent' : m.type = "http_200")
                 => /\ acceptedBy[k.rideId] = {}
                    /\ rides'[k.rideId].driverId = k.userId
            /\ (\E m \in sent' : m.type # "http_200") => rides' = rides]_vars

====
